---- MODULE Spec2Model ----
(***************************************************************************)
(* A model of the coffee-shop drink catalog API (backend/src/api.py).      *)
(*                                                                         *)
(* The state is the drink table, the request being served, its response,   *)
(* and the table as it was when the request arrived.  One action per route *)
(* handler serves a whole request: permission guard, handler body, the     *)
(* try/except that maps a raised exception to a status, the error handler  *)
(* and the after_request hook.  The action Respond hands the response to   *)
(* the client and ends the request; requests are served one at a time.     *)
(*                                                                         *)
(* The Drink model (database/models.py) and requires_auth (auth/auth.py)   *)
(* are imported by api.py but are not part of the sources at hand; they    *)
(* are modelled from the specification (sections 3, 4.1, 4.2, 4.3, 5).     *)
(***************************************************************************)
EXTENDS Integers, Sequences, FiniteSets, TLC

VARIABLES drinks, pc, req, resp, pre, supplied

vars == <<drinks, pc, req, resp, pre, supplied>>

\* Rows the drink table can hold: ids are drawn from 1..MaxId.
MaxId == 2

Ids == 1..MaxId

(***************************************************************************)
(* JSON values, as request.get_json() delivers them.                       *)
(***************************************************************************)
JNull == [type |-> "null"]

JStr(s) == [type |-> "string", str |-> s]

JList(s) == [type |-> "list", items |-> s]

\* A key that the body object does not have.
Absent == [type |-> "absent"]

Ingredient(n, c, p) == [name |-> n, color |-> c, parts |-> p]

Water == Ingredient("Water", "blue", 1)

Espresso == Ingredient("Espresso", "brown", 1)

Milk == Ingredient("Milk", "white", 2)

\* The values a request body carries under "title".
BodyTitles == {Absent, JNull, JStr(""), JStr("Water"), JStr("Latte")}

\* The values a request body carries under "recipe".
BodyRecipes ==
    {Absent, JNull, JList(<<>>), JList(<<Water>>), JList(<<Espresso, Milk>>)}

\* Request bodies: no JSON body, a JSON array, or a JSON object.
Bodies ==
    {[kind |-> "none", title |-> Absent, recipe |-> Absent],
     [kind |-> "array", title |-> Absent, recipe |-> Absent]}
    \cup {[kind |-> "object", title |-> t, recipe |-> r] :
            t \in BodyTitles, r \in BodyRecipes}

NoBody == [kind |-> "none", title |-> Absent, recipe |-> Absent]

(***************************************************************************)
(* json.dumps / json.loads on the values above.  A text is a sequence of   *)
(* tokens; numbers are written in decimal.                                 *)
(***************************************************************************)
NumText(n) == IF n = 1 THEN "1" ELSE IF n = 2 THEN "2" ELSE "0"

TextNum(t) == IF t = "1" THEN 1 ELSE IF t = "2" THEN 2 ELSE 0

DumpObject(o) ==
    <<"{", "name", o.name, "color", o.color, "parts", NumText(o.parts), "}">>

RECURSIVE DumpItems(_)
DumpItems(s) ==
    IF s = <<>> THEN <<>>
    ELSE IF Len(s) = 1 THEN DumpObject(s[1])
    ELSE DumpObject(s[1]) \o <<",">> \o DumpItems(Tail(s))

Dumps(v) ==
    IF v.type = "null" THEN <<"null">>
    ELSE <<"[">> \o DumpItems(v.items) \o <<"]">>

\* The number of tokens DumpObject writes.
ObjectLen == Len(DumpObject(Water))

LoadObject(t) == Ingredient(t[3], t[5], TextNum(t[7]))

RECURSIVE LoadItems(_)
LoadItems(t) ==
    IF Len(t) < ObjectLen THEN <<>>
    ELSE LET rest == SubSeq(t, ObjectLen + 1, Len(t))
         IN  <<LoadObject(SubSeq(t, 1, ObjectLen))>>
             \o (IF rest # <<>> /\ Head(rest) = ","
                 THEN LoadItems(Tail(rest)) ELSE <<>>)

Loads(t) ==
    IF t = <<"null">> THEN JNull
    ELSE JList(LoadItems(SubSeq(t, 2, Len(t) - 1)))

(***************************************************************************)
(* Python truth value of a JSON value: `if title:` / `if recipe:`.         *)
(***************************************************************************)
TruthyNotNone(v) == v.type # "null"

Truthy(v) ==
    CASE v.type = "null" -> FALSE
      [] v.type = "string" -> v.str # ""
      [] v.type = "list" -> v.items # <<>>
      [] OTHER -> FALSE

\* body.get(key, None)
Get(value) == IF value.type = "absent" THEN JNull ELSE value

(***************************************************************************)
(* The Drink model and its table (modelled from the specification).        *)
(* A row is [title, recipe]: title is None or a string, recipe is a column *)
(* value, SQL NULL or a text.                                              *)
(***************************************************************************)
SqlNull == [isNull |-> TRUE, text |-> <<>>]

SqlText(t) == [isNull |-> FALSE, text |-> t]

Drink(title, recipe) == [title |-> title, recipe |-> recipe]

EmptyTable == [i \in {} |-> Drink(JNull, SqlNull)]

\* The constraint check of a commit that leaves row `row` under id `id`:
\* the recipe column is not null and no other row has the same (non-null)
\* title.
CommitOk(table, id, row) ==
    /\ ~row.recipe.isNull
    /\ row.title.type = "null"
       \/ \A j \in DOMAIN table \ {id} : table[j].title # row.title

\* Drink.insert(): a new row under an id the store chooses.
insert(table, id, row) == [j \in DOMAIN table \cup {id} |->
                              IF j = id THEN row ELSE table[j]]

\* Drink.update(): the row's changed fields are written.
update(table, id, row) == [table EXCEPT ![id] = row]

\* Drink.delete()
delete(table, id) == [j \in DOMAIN table \ {id} |-> table[j]]

\* Drink.long(): the recipe text deserialized.
long(id, row) ==
    [id |-> id, title |-> row.title, recipe |-> Loads(row.recipe.text)]

\* Drink.short() iterates over the deserialized recipe; a recipe that is not
\* a list raises TypeError.
shortRaises(row) == Loads(row.recipe.text).type # "list"

short(id, row) ==
    LET r == Loads(row.recipe.text).items
    IN  [id |-> id, title |-> row.title,
         recipe |-> [i \in 1..Len(r) |->
                        [color |-> r[i].color, parts |-> r[i].parts]]]

RECURSIVE SortedIds(_)
SortedIds(S) ==
    IF S = {} THEN <<>>
    ELSE LET m == CHOOSE x \in S : \A y \in S : x <= y
         IN  <<m>> \o SortedIds(S \ {m})

\* Drink.query.all(): the ids of all rows, in a stable order.
queryAll(table) == SortedIds(DOMAIN table)

(***************************************************************************)
(* requires_auth (modelled from the specification, sections 4.1 and 4.2).  *)
(***************************************************************************)
Permissions ==
    {"get:drinks-detail", "post:drinks", "patch:drinks", "delete:drinks"}

Barista == {"get:drinks-detail"}

Manager == Permissions

Token(perms) == [kind |-> "token", permissions |-> perms]

\* What a request carries for authorization: no Authorization header, a
\* token that does not verify, or a verified token with its permissions.
Auths ==
    {[kind |-> "missing_header", permissions |-> {}],
     [kind |-> "invalid_token", permissions |-> {}],
     Token({}), Token(Barista), Token(Manager)}

AuthPasses(auth, permission) ==
    auth.kind = "token" /\ permission \in auth.permissions

AuthErrorPayload(auth) ==
    IF auth.kind = "missing_header"
    THEN [code |-> "authorization_header_missing"]
    ELSE IF auth.kind = "invalid_token"
    THEN [code |-> "invalid_token"]
    ELSE [code |-> "unauthorized"]

AuthErrorStatus == 401

(***************************************************************************)
(* Routes, the permission each is decorated with, and the error handlers.  *)
(***************************************************************************)
Routes ==
    {"GET /drinks", "GET /drinks-detail", "POST /drinks",
     "PATCH /drinks/id", "DELETE /drinks/id"}

GuardedNotPost(route) ==
    route \in {"GET /drinks-detail", "PATCH /drinks/id", "DELETE /drinks/id"}

\* The routes decorated with @requires_auth.
Guarded(route) ==
    route \in {"GET /drinks-detail", "POST /drinks",
               "PATCH /drinks/id", "DELETE /drinks/id"}

RequiredPermission(route) ==
    CASE route = "GET /drinks-detail" -> "get:drinks-detail"
      [] route = "POST /drinks" -> "post:drinks"
      [] route = "PATCH /drinks/id" -> "patch:drinks"
      [] route = "DELETE /drinks/id" -> "delete:drinks"
      [] OTHER -> "none"

\* The guard lets the request through to the handler.
Admitted(route, auth) ==
    Guarded(route) => AuthPasses(auth, RequiredPermission(route))

\* A mutant: only storage errors are caught; the rest propagate.
CatchOnlyStorage(exception) ==
    CASE exception = "IntegrityError" -> 422
      [] exception = "NotFound" -> 404
      [] OTHER -> 500

\* The except clauses of a handler: `except AuthError: abort(401)` and then
\* `except(Exception): abort(422)`.  abort(404) raises NotFound, an
\* HTTPException and so an Exception, inside the try block.
Catch(exception) ==
    IF exception = "AuthError" THEN 401 ELSE 422

\* The registered error handlers.
ErrorBody(status) ==
    IF status = 404
    THEN [success |-> FALSE, error |-> 404, message |-> "resource not found"]
    ELSE IF status = 422
    THEN [success |-> FALSE, error |-> 422, message |-> "unprocessable"]
    ELSE [success |-> FALSE, error |-> status, message |-> "unhandled"]

\* Access-Control-Allow-Origin and the methods Access-Control-Allow-Methods
\* lists.
CorsHeaders ==
    [origin |-> "*",
     methods |-> {"POST", "GET", "PUT", "DELETE", "PATCH", "OPTIONS"}]

\* The after_request hook: every response gets the CORS headers.
after_request(response) == [response EXCEPT !.headers = CorsHeaders]

Response(status, body, invoked) ==
    after_request([status |-> status, body |-> body, invoked |-> invoked,
                   headers |-> [origin |-> "", methods |-> {}]])

\* The response of a handler whose try block raised `exception`.
Raised(exception) ==
    Response(Catch(exception), ErrorBody(Catch(exception)), TRUE)

\* The response of the guard to a request it does not admit.
Rejected(auth) == Response(AuthErrorStatus, AuthErrorPayload(auth), FALSE)

Request(route, auth, id, body) ==
    [route |-> route, auth |-> auth, id |-> id, body |-> body]

NoReq == Request("none", Token({}), 0, NoBody)

NoResp == [status |-> 0, body |-> [success |-> FALSE], invoked |-> FALSE,
           headers |-> [origin |-> "", methods |-> {}]]

(***************************************************************************)
(* The field assignments of update_drink.                                  *)
(***************************************************************************)
PatchedTitle(old, title) == IF Truthy(title) THEN title ELSE old

PatchedRecipeAlways(old, recipe) == SqlText(Dumps(recipe))

PatchedRecipe(old, recipe) ==
    IF Truthy(recipe) THEN SqlText(Dumps(recipe)) ELSE old

Init ==
    /\ drinks = EmptyTable
    /\ pc = "idle"
    /\ req = NoReq
    /\ resp = NoResp
    /\ pre = EmptyTable
    /\ supplied = EmptyTable

\* The bookkeeping every handler action shares.
Serve(request, response) ==
    /\ pc' = "handled"
    /\ req' = request
    /\ resp' = response
    /\ pre' = drinks

get_drinks ==
    /\ pc = "idle"
    /\ LET response ==
               IF \E i \in DOMAIN drinks : shortRaises(drinks[i])
               THEN Raised("TypeError")
               ELSE IF Len(queryAll(drinks)) = 0
               THEN Raised("NotFound")
               ELSE Response(200,
                        [success |-> TRUE,
                         drinks |-> [k \in 1..Len(queryAll(drinks)) |->
                                       short(queryAll(drinks)[k],
                                             drinks[queryAll(drinks)[k]])]],
                        TRUE)
       IN  Serve(Request("GET /drinks", Token({}), 0, NoBody), response)
    /\ UNCHANGED <<drinks, supplied>>

longAll(table) ==
    [k \in 1..Len(queryAll(table)) |->
        long(queryAll(table)[k], table[queryAll(table)[k]])]

get_drink_details ==
    /\ pc = "idle"
    /\ \E auth \in Auths :
         LET route == "GET /drinks-detail"
             response ==
               IF ~Admitted(route, auth) THEN Rejected(auth)
               ELSE IF Len(queryAll(drinks)) = 0 THEN Raised("NotFound")
               ELSE Response(200,
                        [success |-> TRUE, drinks |-> longAll(drinks)], TRUE)
         IN  Serve(Request(route, auth, 0, NoBody), response)
    /\ UNCHANGED <<drinks, supplied>>

post_drinks ==
    /\ pc = "idle"
    /\ \E auth \in Auths, body \in Bodies :
         LET route == "POST /drinks"
             title == Get(body.title)
             recipe == Get(body.recipe)
             drink == Drink(title, SqlText(Dumps(recipe)))
         IN  /\ req' = Request(route, auth, 0, body)
             /\ pc' = "handled"
             /\ pre' = drinks
             /\ IF ~Admitted(route, auth)
                THEN /\ resp' = Rejected(auth)
                     /\ UNCHANGED <<drinks, supplied>>
                ELSE IF body.kind # "object"
                THEN /\ resp' = Raised("AttributeError")
                     /\ UNCHANGED <<drinks, supplied>>
                ELSE IF ~CommitOk(drinks, 0, drink)
                THEN /\ resp' = Raised("IntegrityError")
                     /\ UNCHANGED <<drinks, supplied>>
                ELSE \E id \in Ids \ DOMAIN drinks :
                     /\ drinks' = insert(drinks, id, drink)
                     /\ supplied' = insert(supplied, id, Drink(title, recipe))
                     /\ resp' = Response(200,
                                  [success |-> TRUE, drinks |-> long(id, drink)],
                                  TRUE)

update_drink ==
    /\ pc = "idle"
    /\ \E auth \in Auths, body \in Bodies, drink_id \in Ids :
         LET route == "PATCH /drinks/id"
             title == Get(body.title)
             recipe == Get(body.recipe)
             old == drinks[drink_id]
             drink == Drink(PatchedTitle(old.title, title),
                            PatchedRecipe(old.recipe, recipe))
         IN  /\ req' = Request(route, auth, drink_id, body)
             /\ pc' = "handled"
             /\ pre' = drinks
             /\ IF ~Admitted(route, auth)
                THEN /\ resp' = Rejected(auth)
                     /\ UNCHANGED <<drinks, supplied>>
                ELSE IF body.kind # "object"
                THEN /\ resp' = Raised("AttributeError")
                     /\ UNCHANGED <<drinks, supplied>>
                ELSE IF drink_id \notin DOMAIN drinks
                THEN /\ resp' = Raised("NotFound")
                     /\ UNCHANGED <<drinks, supplied>>
                ELSE IF ~CommitOk(drinks, drink_id, drink)
                THEN /\ resp' = Raised("IntegrityError")
                     /\ UNCHANGED <<drinks, supplied>>
                ELSE /\ drinks' = update(drinks, drink_id, drink)
                     /\ supplied' =
                          [supplied EXCEPT ![drink_id] =
                             Drink(IF title.type = "string" /\ title.str # ""
                                   THEN title ELSE @.title,
                                   IF recipe.type = "list" /\ recipe.items # <<>>
                                   THEN recipe ELSE @.recipe)]
                     /\ resp' = Response(200,
                                  [success |-> TRUE,
                                   drinks |-> longAll(update(drinks, drink_id,
                                                             drink))],
                                  TRUE)

delete_drinks ==
    /\ pc = "idle"
    /\ \E auth \in Auths, drink_id \in Ids :
         LET route == "DELETE /drinks/id"
         IN  /\ req' = Request(route, auth, drink_id, NoBody)
             /\ pc' = "handled"
             /\ pre' = drinks
             /\ IF ~Admitted(route, auth)
                THEN /\ resp' = Rejected(auth)
                     /\ UNCHANGED <<drinks, supplied>>
                ELSE IF drink_id \notin DOMAIN drinks
                THEN /\ resp' = Raised("NotFound")
                     /\ UNCHANGED <<drinks, supplied>>
                ELSE /\ drinks' = delete(drinks, drink_id)
                     /\ supplied' = delete(supplied, drink_id)
                     /\ resp' = Response(200,
                                  [success |-> TRUE, delete |-> drink_id], TRUE)

\* The response goes to the client and the request ends.
Respond ==
    /\ pc = "handled"
    /\ pc' = "idle"
    /\ req' = NoReq
    /\ resp' = NoResp
    /\ pre' = drinks
    /\ UNCHANGED <<drinks, supplied>>

Next ==
    \/ get_drinks
    \/ get_drink_details
    \/ post_drinks
    \/ update_drink
    \/ delete_drinks
    \/ Respond

Spec == Init /\ [][Next]_vars

(***************************************************************************)
(* The claims.  They speak of a served request: pc = "handled", with req   *)
(* the request, resp its response, pre the table when it arrived and       *)
(* drinks the table it leaves.  The claims' own vocabulary follows.        *)
(***************************************************************************)
Handled(route) == pc = "handled" /\ req.route = route

\* The request carries a verified token that grants `permission`.
Grants(permission) ==
    req.auth.kind = "token" /\ permission \in req.auth.permissions

\* "Truthy" as the specification defines it: a non-empty string or a
\* non-empty list.
Supplied(v) ==
    \/ v.type = "string" /\ v.str # ""
    \/ v.type = "list" /\ v.items # <<>>

NotFoundEnvelope ==
    [success |-> FALSE, error |-> 404, message |-> "resource not found"]

\* C1: a permitted DELETE /drinks/{id} of an id that is not in the catalog
\* answers 404 with the 'resource not found' envelope, never 422, and leaves
\* the catalog unchanged.
C1_DeleteMissingAnswers404 ==
    (Handled("DELETE /drinks/id") /\ Grants("delete:drinks")
        /\ req.id \notin DOMAIN pre)
    => (resp.status = 404 /\ resp.body = NotFoundEnvelope /\ drinks = pre)

\* C2: on every guarded route, a request whose token does not verify or does
\* not hold the route's permission answers 401, the handler is not invoked
\* and the catalog is the same before and after.
C2_GuardRejectsWithoutEffect ==
    /\ (Handled("GET /drinks-detail") /\ ~Grants("get:drinks-detail"))
       => (resp.status = 401 /\ ~resp.invoked /\ drinks = pre)
    /\ (Handled("POST /drinks") /\ ~Grants("post:drinks"))
       => (resp.status = 401 /\ ~resp.invoked /\ drinks = pre)
    /\ (Handled("PATCH /drinks/id") /\ ~Grants("patch:drinks"))
       => (resp.status = 401 /\ ~resp.invoked /\ drinks = pre)
    /\ (Handled("DELETE /drinks/id") /\ ~Grants("delete:drinks"))
       => (resp.status = 401 /\ ~resp.invoked /\ drinks = pre)

\* C2 witness: a POST with a well-formed drink and no Authorization header
\* was answered 401 while the catalog holds a drink.
C2_Witness ==
    /\ Handled("POST /drinks")
    /\ req.auth.kind = "missing_header"
    /\ req.body.kind = "object" /\ req.body.title = JStr("Latte")
    /\ req.body.recipe = JList(<<Espresso, Milk>>)
    /\ resp.status = 401
    /\ DOMAIN drinks # {}

\* C3: with no drinks in the catalog, GET /drinks, and GET /drinks-detail
\* with its permission, answer 404 with the 'resource not found' envelope.
C3_EmptyCatalogAnswers404 ==
    ((Handled("GET /drinks")
        \/ (Handled("GET /drinks-detail") /\ Grants("get:drinks-detail")))
     /\ DOMAIN pre = {})
    => (resp.status = 404 /\ resp.body = NotFoundEnvelope)

\* C4: a permitted PATCH /drinks/{id} of an id that is not in the catalog
\* answers 404 whatever title and recipe the body object carries, and leaves
\* the catalog unchanged.
C4_PatchMissingAnswers404 ==
    (Handled("PATCH /drinks/id") /\ Grants("patch:drinks")
        /\ req.body.kind = "object" /\ req.id \notin DOMAIN pre)
    => (resp.status = 404 /\ drinks = pre)

\* C5: a permitted PATCH of an existing drink changes only the fields whose
\* supplied value is truthy: an empty, null or absent title leaves the title,
\* an empty, null or absent recipe leaves the recipe, the drink keeps its id
\* and every other drink is unchanged.
C5_PatchChangesOnlyTruthyFields ==
    (Handled("PATCH /drinks/id") /\ Grants("patch:drinks")
        /\ req.body.kind = "object" /\ req.id \in DOMAIN pre)
    => /\ DOMAIN drinks = DOMAIN pre
       /\ \A j \in DOMAIN pre \ {req.id} : drinks[j] = pre[j]
       /\ ~Supplied(req.body.title) => drinks[req.id].title = pre[req.id].title
       /\ ~Supplied(req.body.recipe)
          => drinks[req.id].recipe = pre[req.id].recipe
       /\ (resp.status = 200 /\ Supplied(req.body.title))
          => drinks[req.id].title = req.body.title

\* C5 witness: a PATCH with title "" and a new recipe succeeded on a drink
\* titled "Water": the title stayed and the recipe changed.
C5_Witness ==
    /\ Handled("PATCH /drinks/id") /\ Grants("patch:drinks")
    /\ req.id \in DOMAIN pre
    /\ req.body.kind = "object" /\ req.body.title = JStr("")
    /\ req.body.recipe = JList(<<Espresso, Milk>>)
    /\ resp.status = 200
    /\ pre[req.id].title = JStr("Water")
    /\ drinks[req.id].title = JStr("Water")
    /\ drinks[req.id].recipe # pre[req.id].recipe

\* C6: every served request ends with a status in {200, 401, 404, 422}.
C6_StatusIsNever500 ==
    pc = "handled" => resp.status \in {200, 401, 404, 422}

\* C6 witness: a permitted POST or PATCH whose body is a JSON array, not an
\* object, was answered 422.
C6_Witness ==
    /\ pc = "handled" /\ req.route \in {"POST /drinks", "PATCH /drinks/id"}
    /\ Grants("post:drinks") /\ Grants("patch:drinks")
    /\ req.body.kind = "array"
    /\ resp.status = 422

\* C7: the recipe reported for a drink, in the POST response that created it
\* and in every later GET /drinks-detail or PATCH response, is the recipe it
\* was created with, entries in order, until a PATCH with a truthy recipe
\* replaces it (and then it is that recipe).
C7_RecipeRoundTrip ==
    /\ (Handled("POST /drinks") /\ resp.status = 200)
       => /\ req.body.recipe.type = "list"
             => resp.body.drinks.recipe = req.body.recipe
          /\ resp.body.drinks.recipe = supplied[resp.body.drinks.id].recipe
    /\ (pc = "handled" /\ resp.status = 200
          /\ req.route \in {"GET /drinks-detail", "PATCH /drinks/id"})
       => \A k \in DOMAIN resp.body.drinks :
             resp.body.drinks[k].recipe
               = supplied[resp.body.drinks[k].id].recipe

\* C7 witness: a PATCH that carries no recipe reports the two-ingredient
\* recipe a drink was created with, in order.
C7_Witness ==
    /\ Handled("PATCH /drinks/id") /\ resp.status = 200
    /\ ~Supplied(req.body.recipe) /\ Supplied(req.body.title)
    /\ \E k \in DOMAIN resp.body.drinks :
          /\ resp.body.drinks[k].id = req.id
          /\ resp.body.drinks[k].recipe = JList(<<Espresso, Milk>>)
          /\ resp.body.drinks[k].recipe.items[1].name = "Espresso"

\* The long-form entry of a drink with the ingredient names left out.
WithoutNames(entry) ==
    [id |-> entry.id, title |-> entry.title,
     recipe |-> [i \in DOMAIN entry.recipe.items |->
                    [color |-> entry.recipe.items[i].color,
                     parts |-> entry.recipe.items[i].parts]]]

\* C8: with a non-empty catalog, a permitted GET /drinks-detail answers 200
\* with exactly one long-form entry per stored drink, and GET /drinks lists
\* the same drinks without ingredient names.
C8_ListingsShowEveryDrink ==
    /\ (Handled("GET /drinks-detail") /\ Grants("get:drinks-detail")
          /\ DOMAIN pre # {})
       => /\ resp.status = 200
          /\ Len(resp.body.drinks) = Cardinality(DOMAIN pre)
          /\ \A i \in DOMAIN pre : \E k \in DOMAIN resp.body.drinks :
                resp.body.drinks[k]
                  = [id |-> i, title |-> supplied[i].title,
                     recipe |-> supplied[i].recipe]
    /\ (Handled("GET /drinks") /\ DOMAIN pre # {})
       => /\ resp.status = 200
          /\ Len(resp.body.drinks) = Cardinality(DOMAIN pre)
          /\ \A i \in DOMAIN pre : \E k \in DOMAIN resp.body.drinks :
                resp.body.drinks[k]
                  = WithoutNames([id |-> i, title |-> supplied[i].title,
                                  recipe |-> supplied[i].recipe])

\* C9: a permitted POST /drinks whose body has no recipe field is rejected
\* by a store that requires a non-null recipe: it answers 422 and creates no
\* row.
C9_PostWithoutRecipeIsRejected ==
    (Handled("POST /drinks") /\ Grants("post:drinks")
        /\ req.body.kind = "object" /\ req.body.recipe = Absent)
    => (resp.status = 422 /\ drinks = pre)

\* The title a permitted POST or PATCH would write is the title of another
\* drink.
WritesDuplicateTitle ==
    /\ req.body.kind = "object"
    /\ \/ /\ Handled("POST /drinks") /\ Grants("post:drinks")
          /\ \E j \in DOMAIN pre :
                pre[j].title
                  = (IF req.body.title = Absent THEN JNull ELSE req.body.title)
       \/ /\ Handled("PATCH /drinks/id") /\ Grants("patch:drinks")
          /\ req.id \in DOMAIN pre
          /\ Supplied(req.body.title)
          /\ \E j \in DOMAIN pre \ {req.id} : pre[j].title = req.body.title

\* C10: a POST or PATCH whose write the store rejects (for example because
\* the title duplicates another drink's title) answers 422 and leaves the
\* catalog as it was; a POST or PATCH that does not answer 200 changes
\* nothing; and no two stored drinks ever share a title.
C10_RejectedWriteIsRolledBack ==
    /\ WritesDuplicateTitle => (resp.status = 422 /\ drinks = pre)
    /\ (pc = "handled" /\ req.route \in {"POST /drinks", "PATCH /drinks/id"}
          /\ resp.status # 200)
       => drinks = pre
    /\ \A i, j \in DOMAIN drinks : i # j => drinks[i].title # drinks[j].title

\* What does hold of rejected writes: a write whose title, a string, is the
\* title of another drink answers 422 and leaves the catalog as it was; a
\* POST or PATCH that does not answer 200 changes nothing; and no two stored
\* drinks share a title that is a string.
TitledWriteIsRolledBack ==
    /\ (WritesDuplicateTitle /\ req.body.title.type = "string")
       => (resp.status = 422 /\ drinks = pre)
    /\ (pc = "handled" /\ req.route \in {"POST /drinks", "PATCH /drinks/id"}
          /\ resp.status # 200)
       => drinks = pre
    /\ \A i, j \in DOMAIN drinks :
          (i # j /\ drinks[i].title.type = "string")
          => drinks[i].title # drinks[j].title

\* Two drinks are stored without a title.
TwoUntitledDrinks ==
    \E i, j \in DOMAIN drinks :
       i # j /\ drinks[i].title = JNull /\ drinks[j].title = JNull

====
